---- MODULE Spec2Model ----
(***************************************************************************)
(* A model of the zipzapzop IPC runtime (src/src/ipc.c) and of the C code  *)
(* that the ipcc generator (src/src/ipcc/ipcc.rb) emits for a schema.      *)
(*                                                                         *)
(*   SpecName   validate_service_name as a pure function over names        *)
(*   SpecSetup  concurrent first-time directory setup (access/mkdir steps) *)
(*   Spec       the registry: ipc_bind, ipc_connect, ipc_accept, ipc_close *)
(*   SpecRpc    one call through a generated stub, dispatcher and handler  *)
(*   SpecGen    one run of the generator over schema files                 *)
(***************************************************************************)
EXTENDS Integers, Sequences, FiniteSets, TLC

VARIABLES
    service,    \* SpecName: the name handed to validate_service_name
    vpc,        \* SpecName: "call" before, "done" after the call
    vrv,        \* SpecName: the value validate_service_name returned
    home,       \* the environment's HOME: [set, len]
    root,       \* whether getuid() is 0
    dirs,       \* the directories that exist: <<tree, sub>>
    nodes,      \* socket path -> <<fd>> of the socket bound there, or <<>>
    fds,        \* fd -> the descriptor's socket
    last,       \* the last call of the registry: arguments, result, syscalls made
    spc,        \* SpecSetup: process -> where it is in setup_directories
    sdir,       \* SpecSetup: process -> the state directory it sets up
    sidx,       \* SpecSetup: process -> which of the three directories is next
    srv,        \* SpecSetup: process -> what setup_directories returned
    cl,         \* SpecRpc: the caller and the stub it is in
    sv,         \* SpecRpc: what the server side has done for the request
    req,        \* SpecRpc: the request on the connection
    resp,       \* SpecRpc: the response on the connection
    gin,        \* SpecGen: the schema files ipcc is run on
    gout        \* SpecGen: what the run has written, per file

nameVars == <<service, vpc, vrv>>
envVars == <<home, root>>
regVars == <<nodes, fds, last>>
setupVars == <<spc, sdir, sidx, srv>>
rpcVars == <<cl, sv, req, resp>>
genVars == <<gin, gout>>
vars == <<service, vpc, vrv, home, root, dirs, nodes, fds, last, spc, sdir, sidx, srv,
          cl, sv, req, resp, gin, gout>>

-----------------------------------------------------------------------------
(* Error codes.  include/ipc.h is not part of the sources at hand: the     *)
(* codes are distinct small positive numbers, returned negated, and a      *)
(* captured OS error is the errno shifted by 1000 (ipc_strerror reverses   *)
(* the shift: code < -1000 is strerror(-code - 1000)).                     *)

IPC_ERROR_NAME_TOO_LONG == 1
IPC_ERROR_NAME_INVALID == 2
IPC_ERROR_ARGUMENT_INVALID == 3
IPC_ERROR_NO_MEMORY == 4
IPC_ERROR_CONNECTION_FAILED == 5
IPC_ERROR_METHOD_NOT_FOUND == 6

ErrnoBand == 1000

CAPTURE_ERRNO(errno) == (0 - errno) - ErrnoBand

\* A code of the captured-OS-error band, as ipc_strerror tells it apart.
InErrnoBand(code) == code < 0 - ErrnoBand

-----------------------------------------------------------------------------
(* Names are sequences of characters.  Three characters are enough to tell *)
(* the rules of validate_service_name apart: a letter, '.' and '/'.        *)

Chars == {"a", ".", "/"}

\* The longest service name accepted (scaled down from include/ipc.h).
IPC_SERVICE_NAME_MAX == 3

\* Names handed to validate_service_name are at most this much longer.
NameSlack == 1

MaxNameLen == IPC_SERVICE_NAME_MAX + NameSlack

AllNames == UNION {[1..n -> Chars] : n \in 0..MaxNameLen}

validate_service_name_off_by_one(name) ==
    LET namelen == Len(name) IN
    IF namelen >= IPC_SERVICE_NAME_MAX THEN 0 - IPC_ERROR_NAME_TOO_LONG
    ELSE IF namelen > 0 /\ name[1] = "." THEN 0 - IPC_ERROR_NAME_INVALID
    ELSE IF \E i \in 1..namelen : name[i] = "/" THEN 0 - IPC_ERROR_NAME_INVALID
    ELSE 0

validate_service_name(name) ==
    LET namelen == Len(name) IN
    IF namelen > IPC_SERVICE_NAME_MAX THEN 0 - IPC_ERROR_NAME_TOO_LONG
    ELSE IF namelen > 0 /\ name[1] = "." THEN 0 - IPC_ERROR_NAME_INVALID
    ELSE IF \E i \in 1..namelen : name[i] = "/" THEN 0 - IPC_ERROR_NAME_INVALID
    ELSE 0

NameInit ==
    /\ service \in AllNames
    /\ vpc = "call"
    /\ vrv = 0

ValidateCall ==
    /\ vpc = "call"
    /\ vrv' = validate_service_name(service)
    /\ vpc' = "done"
    /\ UNCHANGED service

ValidateNext ==
    /\ vpc = "done"
    /\ service' \in AllNames
    /\ vpc' = "call"
    /\ vrv' = 0

-----------------------------------------------------------------------------
(* The rules of a service name, stated apart from the code.                *)

RuleLength(name) == Len(name) <= IPC_SERVICE_NAME_MAX
RuleNoLeadingDot(name) == Len(name) = 0 \/ name[1] # "."
RuleNoSlash(name) == \A i \in 1..Len(name) : name[i] # "/"

\* C9: validate_service_name succeeds on every name (the empty one too)
\* that is within IPC_SERVICE_NAME_MAX, has no leading '.' and no '/';
\* a name that breaks exactly one rule gets that rule's code: name-too-long
\* for the length, name-invalid for a leading '.', name-invalid for a '/'.
NameValidationExact ==
    vpc = "done" =>
        /\ (RuleLength(service) /\ RuleNoLeadingDot(service) /\ RuleNoSlash(service))
              => vrv = 0
        /\ (~RuleLength(service) /\ RuleNoLeadingDot(service) /\ RuleNoSlash(service))
              => vrv = 0 - IPC_ERROR_NAME_TOO_LONG
        /\ (RuleLength(service) /\ ~RuleNoLeadingDot(service) /\ RuleNoSlash(service))
              => vrv = 0 - IPC_ERROR_NAME_INVALID
        /\ (RuleLength(service) /\ RuleNoLeadingDot(service) /\ ~RuleNoSlash(service))
              => vrv = 0 - IPC_ERROR_NAME_INVALID

NameValidationWitness ==
    /\ vpc = "done"
    /\ Len(service) = IPC_SERVICE_NAME_MAX
    /\ RuleNoLeadingDot(service) /\ RuleNoSlash(service)
    /\ vrv = 0

-----------------------------------------------------------------------------
(* The filesystem.  A state directory is the tree it roots ("system" for   *)
(* /var/run/ipc, "user" for $HOME/.ipc) and the length of its path; the    *)
(* directories are <<tree, sub>>, sub being "", "services" or "pidfiles".  *)

ENOENT == 2
EEXIST == 17
EBADF == 9
EADDRINUSE == 48
ECONNREFUSED == 61

PATH_MAX == 1024
SunPathSize == 104

SubDirs == <<"", "services", "pidfiles">>

\* Length of the path of the directory sub under a state directory.
SubDirLen(sd, sub) == IF sub = "" THEN sd.len ELSE sd.len + 1 + Len(sub)

Parent(dir) == <<dir[1], "">>

\* mkdir_p after access(2) has said ENOENT: mkdir(2), whose failure is
\* returned as a captured errno (the path may exist by now, its parent may not).
mkdir_p_mkdir(d, dir) ==
    IF dir \in d THEN [rv |-> CAPTURE_ERRNO(EEXIST), dirs |-> d, calls |-> {"access", "mkdir"}]
    ELSE IF dir[2] # "" /\ Parent(dir) \notin d
         THEN [rv |-> CAPTURE_ERRNO(ENOENT), dirs |-> d, calls |-> {"access", "mkdir"}]
    ELSE [rv |-> 0, dirs |-> d \cup {dir}, calls |-> {"access", "mkdir"}]

\* mkdir_p with no other process between its access(2) and its mkdir(2).
mkdir_p(d, dir) ==
    IF dir \in d THEN [rv |-> 0, dirs |-> d, calls |-> {"access"}]
    ELSE mkdir_p_mkdir(d, dir)

\* snprintf(path, sizeof(path), "%s/<sub>", statedir) overflows path.
SubDirTooLong(sd, sub) == SubDirLen(sd, sub) >= PATH_MAX

RECURSIVE setup_from(_, _, _, _)
setup_from(d, sd, i, calls) ==
    IF i > Len(SubDirs) THEN [rv |-> 0, dirs |-> d, calls |-> calls]
    ELSE IF i > 1 /\ SubDirTooLong(sd, SubDirs[i])
         THEN [rv |-> 0 - IPC_ERROR_NAME_TOO_LONG, dirs |-> d, calls |-> calls]
    ELSE LET r == mkdir_p(d, <<sd.tree, SubDirs[i]>>) IN
         IF r.rv < 0 THEN [rv |-> r.rv, dirs |-> r.dirs, calls |-> calls \cup r.calls]
         ELSE setup_from(r.dirs, sd, i + 1, calls \cup r.calls)

setup_directories(d, sd) == setup_from(d, sd, 1, {})

-----------------------------------------------------------------------------
(* get_statedir: the state directory of a domain, set up on the way.       *)

IPC_DOMAIN_SYSTEM == "IPC_DOMAIN_SYSTEM"
IPC_DOMAIN_USER == "IPC_DOMAIN_USER"
Domains == {IPC_DOMAIN_SYSTEM, IPC_DOMAIN_USER, "unsupported"}

\* strlen("/var/run/ipc") and strlen("/.ipc")
SystemDir == [tree |-> "system", len |-> 12]
UserDir(h) == [tree |-> "user", len |-> h.len + 5]
NoDir == [tree |-> "none", len |-> 0]

\* HOME is unset, short, or so long that no socket path under it fits.
HomeShort == 5
HomeLong == 90
Homes == {[set |-> FALSE, len |-> 0], [set |-> TRUE, len |-> HomeShort],
          [set |-> TRUE, len |-> HomeLong]}

\* What get_statedir does before it calls setup_directories: the state
\* directory and 0 with setup still to run, or the code it returns at once.
statedir_of(domain, h, isroot) ==
    IF domain = IPC_DOMAIN_SYSTEM
    THEN [rv |-> 0, sd |-> SystemDir, setup |-> isroot]
    ELSE IF domain = IPC_DOMAIN_USER
    THEN IF ~h.set
         THEN [rv |-> 0 - IPC_ERROR_NAME_INVALID, sd |-> NoDir, setup |-> FALSE]
         ELSE IF UserDir(h).len >= PATH_MAX
         THEN [rv |-> 0 - IPC_ERROR_NAME_TOO_LONG, sd |-> NoDir, setup |-> FALSE]
         ELSE [rv |-> 0, sd |-> UserDir(h), setup |-> TRUE]
    ELSE [rv |-> 0 - IPC_ERROR_ARGUMENT_INVALID, sd |-> NoDir, setup |-> FALSE]

get_statedir(domain, d, h, isroot) ==
    LET s == statedir_of(domain, h, isroot) IN
    IF s.rv < 0 \/ ~s.setup
    THEN [rv |-> s.rv, sd |-> s.sd, dirs |-> d, calls |-> {}]
    ELSE LET r == setup_directories(d, s.sd) IN
         [rv |-> r.rv, sd |-> s.sd, dirs |-> r.dirs, calls |-> r.calls]

-----------------------------------------------------------------------------
(* SpecSetup: processes inside ipc_bind or ipc_connect run get_statedir at *)
(* the same time; each access(2) and each mkdir(2) is one step.            *)

NSetupProcs == 2
SetupProcs == 1..NSetupProcs

SetupDir(p) == <<sdir[p].tree, SubDirs[sidx[p]]>>

\* After directory i is there: the next directory, or return 0.
SetupAdvance(p) ==
    IF sidx[p] = Len(SubDirs)
    THEN /\ spc' = [spc EXCEPT ![p] = "done"]
         /\ srv' = [srv EXCEPT ![p] = 0]
         /\ UNCHANGED sidx
    ELSE /\ spc' = [spc EXCEPT ![p] = "access"]
         /\ sidx' = [sidx EXCEPT ![p] = sidx[p] + 1]
         /\ UNCHANGED srv

\* ipc_bind / ipc_connect reach get_statedir(domain).
SetupCall(p) ==
    /\ spc[p] = "idle"
    /\ \E domain \in Domains :
          LET s == statedir_of(domain, home, root) IN
          /\ sdir' = [sdir EXCEPT ![p] = s.sd]
          /\ sidx' = [sidx EXCEPT ![p] = 1]
          /\ IF s.rv < 0 \/ ~s.setup
             THEN /\ spc' = [spc EXCEPT ![p] = "done"]
                  /\ srv' = [srv EXCEPT ![p] = s.rv]
             ELSE /\ spc' = [spc EXCEPT ![p] = "access"]
                  /\ UNCHANGED srv
    /\ UNCHANGED <<nameVars, envVars, dirs, regVars, rpcVars, genVars>>

\* mkdir_p: access(path, X_OK), after setup_directories built the path.
SetupAccess(p) ==
    /\ spc[p] = "access"
    /\ IF sidx[p] > 1 /\ SubDirTooLong(sdir[p], SubDirs[sidx[p]])
       THEN /\ spc' = [spc EXCEPT ![p] = "done"]
            /\ srv' = [srv EXCEPT ![p] = 0 - IPC_ERROR_NAME_TOO_LONG]
            /\ UNCHANGED sidx
       ELSE IF SetupDir(p) \in dirs
       THEN SetupAdvance(p)
       ELSE /\ spc' = [spc EXCEPT ![p] = "mkdir"]
            /\ UNCHANGED <<sidx, srv>>
    /\ UNCHANGED <<nameVars, envVars, dirs, regVars, rpcVars, genVars, sdir>>

\* mkdir_p: mkdir(path, mode), after access(2) said ENOENT.
SetupMkdir(p) ==
    /\ spc[p] = "mkdir"
    /\ LET r == mkdir_p_mkdir(dirs, SetupDir(p)) IN
       /\ dirs' = r.dirs
       /\ IF r.rv < 0
          THEN /\ spc' = [spc EXCEPT ![p] = "done"]
               /\ srv' = [srv EXCEPT ![p] = r.rv]
               /\ UNCHANGED sidx
          ELSE SetupAdvance(p)
    /\ UNCHANGED <<nameVars, envVars, regVars, rpcVars, genVars, sdir>>

\* The caller returns; the process may call again.
SetupReturn(p) ==
    /\ spc[p] = "done"
    /\ spc' = [spc EXCEPT ![p] = "idle"]
    /\ srv' = [srv EXCEPT ![p] = 0]
    /\ UNCHANGED <<nameVars, envVars, dirs, regVars, rpcVars, genVars, sdir, sidx>>

-----------------------------------------------------------------------------------------------------------------------------------------------------
(* The registry: sockets, descriptors and socket nodes.  ipc.c keeps no    *)
(* state between calls: all of it is the filesystem and the descriptor     *)
(* table of the calling process, which may be its own peer.                *)

EINVAL == 22

\* Descriptors the process may hold; the model explores no call that would
\* need one more (socket(2) and accept(2) do not run out of descriptors).
MaxFds == 3
FdSet == 0..(MaxFds - 1)

Versions == {1}

RECURSIVE Digits(_)
Digits(n) == IF n < 10 THEN 1 ELSE 1 + Digits(n \div 10)

Rep(c, n) == [i \in 1..n |-> c]

\* The names the registry is called with: a valid one and one that is one
\* character too long.
RegNames == {<<"a">>, Rep("a", IPC_SERVICE_NAME_MAX + 1)}

Trees == {"system", "user"}
SockPaths == Trees \X RegNames \X Versions
NoPath == <<>>
NoOwner == <<>>

FreeFd == [kind |-> "free", path |-> NoPath, listening |-> FALSE]

HasFreeFd(f) == \E fd \in FdSet : f[fd].kind = "free"
LowestFree(f) ==
    CHOOSE fd \in FdSet : f[fd].kind = "free" /\ \A g \in FdSet : g < fd => f[g].kind # "free"

\* strlen of "%s/services/%s,%d"
SockPathLen(sd, name, version) == sd.len + 10 + Len(name) + 1 + Digits(version)

SockPathTooLong(sd, name, version) == SockPathLen(sd, name, version) >= SunPathSize

\* errno of bind(2) to a path, 0 when it binds.
bind_errno(d, n, path) ==
    IF <<path[1], "services">> \notin d THEN ENOENT
    ELSE IF n[path] # NoOwner THEN EADDRINUSE
    ELSE 0

\* errno of connect(2) to a path, 0 when it connects: the socket bound to
\* the node has to be listening.
connect_errno(n, f, path) ==
    IF n[path] = NoOwner THEN ENOENT
    ELSE IF ~f[n[path][1]].listening THEN ECONNREFUSED
    ELSE 0

\* errno of unlink(2), 0 when the node is removed.
unlink_errno(n, path) == IF n[path] = NoOwner THEN ENOENT ELSE 0

unlink_skipped(n, path) == n

unlink(n, path) == IF n[path] = NoOwner THEN n ELSE [n EXCEPT ![path] = NoOwner]

bind_to_name(sd, name, version, d, n, f) ==
    LET path == <<sd.tree, name, version>>
        fd == LowestFree(f)
    IN  IF SockPathTooLong(sd, name, version)
        THEN [rv |-> 0 - IPC_ERROR_NAME_TOO_LONG, nodes |-> n, fds |-> f, calls |-> {}]
        ELSE IF bind_errno(d, n, path) # 0
        THEN [rv |-> CAPTURE_ERRNO(bind_errno(d, n, path)), nodes |-> n, fds |-> f,
              calls |-> {"socket", "bind", "close"}]
        ELSE [rv |-> fd,
              nodes |-> [n EXCEPT ![path] = <<fd>>],
              fds |-> [f EXCEPT ![fd] =
                          [kind |-> "listener", path |-> path, listening |-> FALSE]],
              calls |-> {"socket", "bind"}]

\* The call's outcome: what it returned, the world after it, the syscalls made.
Outcome(rv, d, n, f, calls) == [rv |-> rv, dirs |-> d, nodes |-> n, fds |-> f, calls |-> calls]

\* ipc_bind with the name validated only once the socket is bound.
ipc_bind_validates_late(domain, name, version, listenOk, d, n, f, h, isroot) ==
    LET g == get_statedir(domain, d, h, isroot)
        v == validate_service_name(name)
    IN
    IF g.rv < 0 THEN Outcome(g.rv, g.dirs, n, f, g.calls)
    ELSE LET b == bind_to_name(g.sd, name, version, g.dirs, n, f) IN
    IF b.rv < 0 THEN Outcome(b.rv, g.dirs, b.nodes, b.fds, g.calls \cup b.calls)
    ELSE IF v < 0 THEN Outcome(v, g.dirs, b.nodes, b.fds, g.calls \cup b.calls)
    ELSE Outcome(b.rv, g.dirs, b.nodes,
                 [b.fds EXCEPT ![b.rv].listening = listenOk],
                 g.calls \cup b.calls \cup {"listen"})

\* listenOk: whether listen(2) succeeds.
ipc_bind(domain, name, version, listenOk, d, n, f, h, isroot) ==
    LET v == validate_service_name(name) IN
    IF v < 0 THEN Outcome(v, d, n, f, {})
    ELSE LET g == get_statedir(domain, d, h, isroot) IN
    IF g.rv < 0 THEN Outcome(g.rv, g.dirs, n, f, g.calls)
    ELSE LET b == bind_to_name(g.sd, name, version, g.dirs, n, f) IN
    IF b.rv < 0 THEN Outcome(b.rv, g.dirs, b.nodes, b.fds, g.calls \cup b.calls)
    ELSE Outcome(b.rv, g.dirs, b.nodes,
                 [b.fds EXCEPT ![b.rv].listening = listenOk],
                 g.calls \cup b.calls \cup {"listen"})

ipc_connect(domain, name, version, d, n, f, h, isroot) ==
    LET v == validate_service_name(name) IN
    IF v < 0 THEN Outcome(v, d, n, f, {})
    ELSE LET g == get_statedir(domain, d, h, isroot) IN
    IF g.rv < 0 THEN Outcome(g.rv, g.dirs, n, f, g.calls)
    ELSE IF SockPathTooLong(g.sd, name, version)
    THEN Outcome(0 - IPC_ERROR_NAME_TOO_LONG, g.dirs, n, f, g.calls)
    ELSE LET path == <<g.sd.tree, name, version>>
             fd == LowestFree(f)
         IN  IF connect_errno(n, f, path) # 0
             THEN Outcome(CAPTURE_ERRNO(connect_errno(n, f, path)), g.dirs, n, f,
                          g.calls \cup {"socket", "connect", "close"})
             ELSE Outcome(fd, g.dirs, n,
                          [f EXCEPT ![fd] =
                              [kind |-> "client", path |-> NoPath, listening |-> FALSE]],
                          g.calls \cup {"socket", "connect"})

\* accept(s, &sa, &sa_len) with sa_len never set: the kernel may take the
\* value it finds there or refuse it (lenOk).  The peer that is accepted is
\* any process of the machine that has connected; accept(2) returns once
\* there is one.
ipc_accept(s, lenOk, d, n, f) ==
    IF f[s].kind = "free" THEN Outcome(CAPTURE_ERRNO(EBADF), d, n, f, {"accept"})
    ELSE IF ~f[s].listening \/ ~lenOk THEN Outcome(CAPTURE_ERRNO(EINVAL), d, n, f, {"accept"})
    ELSE Outcome(LowestFree(f), d, n,
                 [f EXCEPT ![LowestFree(f)] =
                     [kind |-> "accepted", path |-> f[s].path, listening |-> FALSE]],
                 {"accept"})

\* What sa.sun_path may hold when getsockname(2) has stored no path: sa is
\* not initialised, and for a socket that is not bound what getsockname
\* stores is unspecified (an empty path on some systems, nothing at all on
\* others, which leaves what the stack held, the path of an earlier call
\* included).
Unspecified == {NoPath} \cup SockPaths

\* sa.sun_path after getsockname(2): the path the socket is bound to (an
\* accepted socket has its listener's address); for a socket without one,
\* unspec.
getsockname(s, unspec, f) == IF f[s].path = NoPath THEN unspec ELSE f[s].path

\* getsockname(2), then unlink(2) of a non-empty path.  The descriptor
\* itself is left as it is.
ipc_close(s, unspec, d, n, f) ==
    LET path == getsockname(s, unspec, f) IN
    IF f[s].kind = "free" THEN Outcome(CAPTURE_ERRNO(EBADF), d, n, f, {"getsockname"})
    ELSE IF path = NoPath THEN Outcome(0, d, n, f, {"getsockname"})
    ELSE IF unlink_errno(n, path) # 0
    THEN Outcome(CAPTURE_ERRNO(unlink_errno(n, path)), d, n, f, {"getsockname", "unlink"})
    ELSE Outcome(0, d, unlink(n, path), f, {"getsockname", "unlink"})

-----------------------------------------------------------------------------
(* The generated code.  ipcc.rb turns a schema into a stub per method, a   *)
(* handler (skeleton) per method and one dispatcher.  What the generator   *)
(* writes is modelled by what the written C does on a call.                *)
(*                                                                         *)
(* A value is [null, bytes]: a scalar or struct is its bytes; a text is    *)
(* the bytes before its NUL, or the null pointer.                          *)

TText == [ctype |-> "char *", text |-> TRUE, size |-> 0]
TChar == [ctype |-> "char", text |-> FALSE, size |-> 1]
TU16 == [ctype |-> "uint16_t", text |-> FALSE, size |-> 2]

\* The schema: service echo with four methods of different shapes.
Schema ==
    << [id |-> 1, name |-> "ping", accepts |-> <<>>, returns |-> <<TText>>],
       [id |-> 2, name |-> "add", accepts |-> <<TChar, TU16>>, returns |-> <<TU16>>],
       [id |-> 3, name |-> "greet", accepts |-> <<TText, TChar>>, returns |-> <<TText, TChar>>],
       [id |-> 5, name |-> "put", accepts |-> <<TU16>>, returns |-> <<>>] >>

Methods == 1..Len(Schema)
MethodIds == {Schema[i].id : i \in Methods}

\* Method ids a client built from another schema may send.
ForeignIds == {0, 7}

V(b) == [null |-> FALSE, bytes |-> b]
Null == [null |-> TRUE, bytes |-> <<>>]

TextValues == {V(<<>>), V(<<1>>), V(<<2, 1>>)}
Values(t) ==
    IF t.text THEN TextValues \cup {Null}
    ELSE IF t.size = 1 THEN {V(<<1>>), V(<<2>>)}
    ELSE {V(<<1, 0>>), V(<<2, 1>>)}

\* What an implementation function may hand back: a text it returns is a string.
ReturnValues(t) == IF t.text THEN TextValues ELSE Values(t)

AllValues == Values(TText) \cup Values(TChar) \cup Values(TU16)

\* The values of a list of arguments: what a caller may pass (returned
\* is FALSE) or what an implementation function may hand back.
Tuples(types, returned) ==
    {a \in [1..Len(types) -> AllValues] :
        \A k \in 1..Len(types) :
            a[k] \in IF returned THEN ReturnValues(types[k]) ELSE Values(types[k])}

\* sizeof(struct ipc_message), scaled down, and the capacity of _ipc_argsz.
HeaderSize == 4
IPC_ARGC_MAX == 3
ArgIdx == 0..(IPC_ARGC_MAX - 1)

RECURSIVE SumLen(_, _, _)
\* the sum of seg[k].len for k in lo..hi
SumLen(seg, lo, hi) == IF lo > hi THEN 0 ELSE seg[lo].len + SumLen(seg, lo + 1, hi)

RECURSIVE Concat(_, _, _)
\* the bytes of the segments lo..hi, one after the other
Concat(seg, lo, hi) == IF lo > hi THEN <<>> ELSE seg[lo].bytes \o Concat(seg, lo + 1, hi)

\* Method#initialize: the k-th accepted argument (k = 1, 2, ...) gets the
\* index k (the counter is raised before it is used), the k-th returned
\* argument the index k - 1.
accept_index(k) == k
return_index(k) == k - 1

\* Argument#copy_in: the segment of an accepted argument.
copy_in(t, v) ==
    IF t.text
    THEN IF v.null THEN [len |-> 0, bytes |-> <<>>]
         ELSE [len |-> Len(v.bytes) + 1, bytes |-> v.bytes \o <<0>>]
    ELSE [len |-> t.size, bytes |-> v.bytes]

\* Method#args_copy_in: iov_in[0] is the header, iov_in[index] the argument.
iov_in(m, args) ==
    [i \in 0..Len(m.accepts) |->
        IF i = 0 THEN [len |-> HeaderSize, bytes |-> <<>>]
        ELSE copy_in(m.accepts[i], args[i])]

argsz_source_shifted(count) == IF count = 0 THEN 1 ELSE count

\* The index whose iov_len is stored in _ipc_argsz[count].
argsz_source(count) == count + 1

\* Method#args_copy_in: the request header.
request_header(m, args) ==
    LET n == Len(m.accepts)
        iov == iov_in(m, args)
    IN  [method |-> m.id,
         argc |-> n,
         argsz |-> [c \in ArgIdx |-> IF c < n THEN iov[argsz_source(c)].len ELSE 0],
         bufsz |-> SumLen(iov, 1, n)]

\* The bytes writev sends after the header.
request_body(m, args) == Concat(iov_in(m, args), 1, Len(m.accepts))

\* The errno of a write to a connection the peer has left.
EPIPE == 32

\* The stub's test of what writev returned: 0 to go on, else the code it returns.
writev_check(bytes, hdr) ==
    IF bytes < 0 THEN CAPTURE_ERRNO(EPIPE)
    ELSE IF bytes < hdr.bufsz THEN 0 - 73
    ELSE 0

-----------------------------------------------------------------------------
(* The handler's side.  The memory at body holds the payload, then bytes   *)
(* that are not the request's (junk), then zeroes.                         *)

MemAt(body, junk, i) ==
    IF i < Len(body) THEN body[i + 1]
    ELSE IF i < Len(body) + Len(junk) THEN junk[i - Len(body) + 1]
    ELSE 0

RECURSIVE CStr(_, _, _)
\* the string that starts at offset i
CStr(body, junk, i) ==
    IF MemAt(body, junk, i) = 0 THEN <<>>
    ELSE <<MemAt(body, junk, i)>> \o CStr(body, junk, i + 1)

\* Argument#skeleton_copy_in: a text is the pointer pos itself, anything
\* else is copied from pos.
read_arg(t, body, junk, pos) ==
    IF t.text THEN V(CStr(body, junk, pos))
    ELSE V([j \in 1..t.size |-> MemAt(body, junk, pos + j - 1)])

\* Argument#skeleton_copy_in: "pos += request->_ipc_argsz[index]".
skeleton_step(hdr, k) == hdr.argsz[accept_index(k)]

RECURSIVE skeleton_copy_in(_, _, _, _, _, _)
\* the values of the arguments k.. as the handler takes them from body
skeleton_copy_in(m, hdr, body, junk, k, pos) ==
    IF k > Len(m.accepts) THEN <<>>
    ELSE <<read_arg(m.accepts[k], body, junk, pos)>>
         \o skeleton_copy_in(m, hdr, body, junk, k + 1, pos + skeleton_step(hdr, k))

\* The handler's segment of a returned value: a text is measured again.
copy_out(t, v) ==
    IF t.text THEN [len |-> Len(v.bytes) + 1, bytes |-> v.bytes \o <<0>>]
    ELSE [len |-> t.size, bytes |-> v.bytes]

iov_out(m, rets) ==
    [i \in 0..Len(m.returns) |->
        IF i = 0 THEN [len |-> HeaderSize, bytes |-> <<>>]
        ELSE copy_out(m.returns[i], rets[i])]

response_argsz_short(seg) == seg.len - 1

response_argsz(seg) == seg.len

response_header(m, reqhdr, rets) ==
    LET n == Len(m.returns)
        iov == iov_out(m, rets)
    IN  [method |-> reqhdr.method,
         argc |-> n,
         argsz |-> [c \in ArgIdx |->
                       IF c < n THEN response_argsz(iov[return_index(c + 1) + 1]) ELSE 0],
         bufsz |-> SumLen(iov, 1, n)]

response_payload(m, rets) == Concat(iov_out(m, rets), 1, Len(m.returns))

\* The handler's test of what writev returned: its rv afterwards.
handler_writev_check(bytes, hdr, rv) ==
    IF bytes < 0 THEN CAPTURE_ERRNO(EPIPE)
    ELSE IF bytes < hdr.bufsz THEN 0 - 1
    ELSE rv

\* ipc_dispatch__<service>: the handlers a request with this id reaches.
dispatch_all(id) == {i \in Methods : Schema[i].id <= id}

dispatch(id) == {i \in Methods : Schema[i].id = id}

-----------------------------------------------------------------------------
(* The stub's side of the response.                                        *)

BadHeader == [method |-> 0, argc |-> 0 - 1, argsz |-> [c \in ArgIdx |-> 0], bufsz |-> 0]
EmptyHeader == [method |-> 0, argc |-> 0, argsz |-> [c \in ArgIdx |-> 0], bufsz |-> 0]

FilledHeader == [method |-> 0, argc |-> 1,
                 argsz |-> [c \in ArgIdx |-> IF c = 0 THEN 1 ELSE 0], bufsz |-> 1]

\* What a response that was never filled in may hold: a header that does
\* not validate, or one that does, without or with a payload.
GarbageHeaders == {BadHeader, EmptyHeader, FilledHeader}

RECURSIVE SumSizes(_, _)
SumSizes(argsz, n) == IF n <= 0 THEN 0 ELSE argsz[n - 1] + SumSizes(argsz, n - 1)

\* ipc_message_validate: argc and the sizes are non-negative and add up.
ipc_message_validate(hdr) ==
    IF /\ hdr.argc >= 0 /\ hdr.argc <= IPC_ARGC_MAX
       /\ \A c \in ArgIdx : hdr.argsz[c] >= 0
       /\ hdr.bufsz = SumSizes(hdr.argsz, hdr.argc)
    THEN 0
    ELSE 0 - IPC_ERROR_ARGUMENT_INVALID

\* "read(fd, &response, sizeof(response)) < sizeof(response)": the result is
\* compared as an unsigned number, so -1 is not less.
header_read_short(n) == n >= 0 /\ n < HeaderSize

\* Argument#returns_to_iovec: what readv may put into the k-th returned
\* value: a new buffer of the declared size for a pointer, else sizeof.
returns_to_iovec(t, hdr, k) == IF t.text THEN hdr.argsz[return_index(k)] ELSE t.size

RECURSIVE iov_offset(_, _, _)
\* where in the payload the k-th buffer starts
iov_offset(m, hdr, k) ==
    IF k <= 1 THEN 0
    ELSE iov_offset(m, hdr, k - 1) + returns_to_iovec(m.returns[k - 1], hdr, k - 1)

iov_capacity(m, hdr) == iov_offset(m, hdr, Len(m.returns) + 1)

Min(a, b) == IF a < b THEN a ELSE b

\* The string in a buffer whose last byte has been set to NUL.
RECURSIVE Str(_, _)
Str(buf, i) == IF i >= Len(buf) \/ buf[i] = 0 THEN <<>> ELSE <<buf[i]>> \o Str(buf, i + 1)

Untouched == [st |-> "untouched", bytes |-> <<>>]

\* What malloc(0) gives: a null pointer or a pointer of its own.
Malloc0 == {"null", "unique"}

\* The caller's pointer after a text of declared size 0: the stub has
\* stored malloc's result in it and then freed that.
text_out_empty(malloc0) ==
    IF malloc0 = "null" THEN [st |-> "null", bytes |-> <<>>]
    ELSE [st |-> "dangling", bytes |-> <<>>]

\* The caller's pointer after a text of declared size >= 1: the buffer,
\* its last byte set to NUL.
text_out(buf) == [st |-> "valid", bytes |-> Str(buf, 1)]

\* The caller's k-th output once readv has filled every buffer.
copy_out_result(t, hdr, payload, off, k, malloc0) ==
    LET size == returns_to_iovec(t, hdr, k)
        buf == SubSeq(payload, off + 1, off + size)
    IN  IF ~t.text THEN [st |-> "set", bytes |-> buf]
        ELSE IF size = 0 THEN text_out_empty(malloc0)
        ELSE text_out(buf)

\* The sizes the stub hands to malloc.
stub_allocs(m, hdr) ==
    LET P == {k \in 1..Len(m.returns) : m.returns[k].text} IN
    [k \in P |-> hdr.argsz[return_index(k)]]

-----------------------------------------------------------------------------
(* SpecRpc: one call at a time over one connection.                        *)

NoHeader == EmptyHeader
NoReq == [some |-> FALSE, complete |-> FALSE, from |-> "none", hdr |-> NoHeader, body |-> <<>>]
NoResp == [some |-> FALSE, hdrFull |-> FALSE, from |-> "none", hdr |-> NoHeader,
           payload |-> <<>>]
ClientIdle == [pc |-> "idle", m |-> 0, args |-> <<>>, rv |-> 0, outs |-> <<>>,
               writes |-> 0, wrote |-> 0, total |-> 0, reads |-> 0, closes |-> 0,
               allocs |-> <<>>, hdrRead |-> FALSE, hdr |-> NoHeader, conn |-> FALSE]
ServerIdle == [by |-> "none", handlers |-> {}, impl |-> <<>>, args |-> <<>>, rets |-> <<>>,
               implRv |-> 0, rv |-> 0, writes |-> 0, wrote |-> 0, total |-> 0,
               closes |-> 0]

RpcIdle == cl = ClientIdle /\ sv = ServerIdle /\ req = NoReq /\ resp = NoResp

stub_out_no_close(c) == [c EXCEPT !.pc = "returned"]

\* The stub's "out: free(buf); close(fd); return rv".  fd is the
\* connection's descriptor, or still -1 when no connection was made.
stub_out(c) == [c EXCEPT !.pc = "returned", !.closes = IF c.conn THEN @ + 1 ELSE @]

\* The handler's "out: close(s); return rv".
handler_out(v) == [v EXCEPT !.closes = @ + 1]


\* The caller enters the stub of a method: ipc_client, ipc_client_connect,
\* the header and the segments, one writev and its check.  fail says which
\* of the first two fails, w is what writev returns.
StubCall ==
    /\ cl.pc = "idle" /\ ~req.some
    /\ \E mi \in Methods, fail \in {"none", "client", "connect"} :
       \E args \in Tuples(Schema[mi].accepts, FALSE) :
          LET m == Schema[mi]
              hdr == request_header(m, args)
              total == HeaderSize + hdr.bufsz
              base == [ClientIdle EXCEPT !.m = mi, !.args = args,
                          !.outs = [k \in 1..Len(m.returns) |-> Untouched]]
          IN  IF fail = "client"
              THEN /\ cl' = [base EXCEPT !.pc = "returned", !.rv = 0 - IPC_ERROR_NO_MEMORY]
                   /\ UNCHANGED req
              ELSE IF fail = "connect"
              THEN /\ cl' = stub_out([base EXCEPT !.rv = 0 - IPC_ERROR_CONNECTION_FAILED])
                   /\ UNCHANGED req
              ELSE \E w \in (0 - 1)..total :
                   /\ cl' = IF writev_check(w, hdr) # 0
                            THEN stub_out([base EXCEPT !.conn = TRUE,
                                              !.rv = writev_check(w, hdr),
                                              !.writes = 1, !.wrote = w, !.total = total])
                            ELSE [base EXCEPT !.conn = TRUE, !.pc = "reading",
                                     !.writes = 1, !.wrote = w, !.total = total]
                   /\ req' = IF w < 0 THEN NoReq
                             ELSE [some |-> TRUE, complete |-> (w = total), from |-> "stub",
                                   hdr |-> hdr, body |-> request_body(m, args)]
    /\ UNCHANGED <<sv, resp>>
    /\ UNCHANGED <<nameVars, envVars, dirs, regVars, setupVars, genVars>>

\* A client that was not generated from this schema sends a request
\* without arguments, for a method id that may not be one of the service.
ForeignRequest ==
    /\ cl.pc = "idle" /\ ~req.some
    /\ \E id \in ForeignIds \cup {Schema[i].id : i \in {j \in Methods : Len(Schema[j].accepts) = 0}} :
          req' = [some |-> TRUE, complete |-> TRUE, from |-> "foreign",
                  hdr |-> [EmptyHeader EXCEPT !.method = id], body |-> <<>>]
    /\ UNCHANGED <<cl, sv, resp>>
    /\ UNCHANGED <<nameVars, envVars, dirs, regVars, setupVars, genVars>>

\* The handler of method mi, called by the dispatcher with the connection,
\* the request and its body: arguments out of body, the implementation
\* function (implRv and rets are what it returns; after a failure rets is
\* whatever the temporaries hold), the response, one writev (w), close.
Handler(mi, reached) ==
    \E junk \in {<<>>, <<2>>}, implRv \in {0, 0 - 1} :
    \E rets \in Tuples(Schema[mi].returns, TRUE) :
       LET m == Schema[mi]
           args == skeleton_copy_in(m, req.hdr, req.body, junk, 1, 0)
           rhdr == response_header(m, req.hdr, rets)
           payload == response_payload(m, rets)
           total == HeaderSize + rhdr.bufsz
       IN  \E w \in (0 - 1)..total :
           /\ sv' = handler_out(
                       [by |-> "generated", handlers |-> reached,
                        impl |-> <<m.name>>, args |-> args, rets |-> rets,
                        implRv |-> implRv,
                        rv |-> handler_writev_check(w, rhdr, implRv),
                        writes |-> 1, wrote |-> w, total |-> total, closes |-> 0])
           /\ resp' = IF w < 0 THEN NoResp
                      ELSE [some |-> TRUE, hdrFull |-> (w >= HeaderSize), from |-> "handler",
                            hdr |-> rhdr,
                            payload |-> IF w >= HeaderSize
                                        THEN SubSeq(payload, 1, w - HeaderSize) ELSE <<>>]

\* The server has read a whole request and calls ipc_dispatch__<service>.
ServerDispatch ==
    /\ req.some /\ req.complete /\ sv.by = "none"
    /\ LET reached == dispatch(req.hdr.method) IN
       IF reached = {}
       THEN /\ sv' = [ServerIdle EXCEPT !.by = "generated",
                         !.rv = 0 - IPC_ERROR_METHOD_NOT_FOUND]
            /\ UNCHANGED resp
       ELSE \E mi \in reached : Handler(mi, reached)
    /\ UNCHANGED <<cl, req>>
    /\ UNCHANGED <<nameVars, envVars, dirs, regVars, setupVars, genVars>>

\* The payload a server of another make sends for declared sizes.
Fill(n) == [i \in 1..n |-> IF i = n THEN 0 ELSE 1]

RECURSIVE ForeignPayload(_, _, _)
ForeignPayload(m, hdr, k) ==
    IF k > Len(m.returns) THEN <<>>
    ELSE Fill(hdr.argsz[return_index(k)]) \o ForeignPayload(m, hdr, k + 1)

\* The headers such a server may send for a method: the sizes of the
\* scalars are theirs, a text has any size from 0 on.
ForeignHeaders(m) ==
    {h \in [method : {m.id}, argc : {Len(m.returns)},
            argsz : [ArgIdx -> 0..2], bufsz : 0..(2 * IPC_ARGC_MAX)] :
        /\ ipc_message_validate(h) = 0
        /\ \A c \in ArgIdx :
              IF c < Len(m.returns)
              THEN m.returns[c + 1].text \/ h.argsz[c] = m.returns[c + 1].size
              ELSE h.argsz[c] = 0}

\* The service is served by a server that was not generated from this
\* schema: it answers the stub's request with a header that validates.
ForeignResponse ==
    /\ cl.pc = "reading" /\ req.complete /\ sv.by = "none"
    /\ \E h \in ForeignHeaders(Schema[cl.m]) :
          resp' = [some |-> TRUE, hdrFull |-> TRUE, from |-> "foreign", hdr |-> h,
                   payload |-> ForeignPayload(Schema[cl.m], h, 1)]
    /\ sv' = [ServerIdle EXCEPT !.by = "foreign"]
    /\ UNCHANGED <<cl, req>>
    /\ UNCHANGED <<nameVars, envVars, dirs, regVars, setupVars, genVars>>

\* errno after a read that was short without failing: what an earlier
\* call has left there.
StaleErrno == {0, EPIPE}

\* The stub after its writev: read of the header (rd is "error" when read
\* returns -1), ipc_message_validate, the buffers, readv (rdv likewise),
\* the outputs, close.  g is what an unfilled response holds, m0 what
\* malloc(0) gives, e the errno a short read finds.
StubReceive ==
    /\ cl.pc = "reading"
    /\ sv.by # "none" \/ ~req.complete
    /\ \E rd \in {"ok", "error"}, rdv \in {"ok", "error"}, g \in GarbageHeaders,
          m0 \in Malloc0, e \in StaleErrno :
          LET m == Schema[cl.m]
              n == IF rd = "error" THEN 0 - 1
                   ELSE IF resp.some /\ resp.hdrFull THEN HeaderSize ELSE 0
              hdr == IF n = HeaderSize THEN resp.hdr ELSE g
              avail == IF n = HeaderSize THEN resp.payload ELSE <<>>
              got == IF rdv = "error" \/ rd = "error" THEN 0 - 1
                     ELSE Min(iov_capacity(m, hdr), Len(avail))
              done == stub_out([cl EXCEPT !.hdr = hdr, !.hdrRead = (n = HeaderSize)])
          IN  IF header_read_short(n)
              THEN cl' = [done EXCEPT !.rv = CAPTURE_ERRNO(e), !.reads = 1,
                             !.hdr = NoHeader]
              ELSE IF ipc_message_validate(hdr) < 0
              THEN cl' = [done EXCEPT !.rv = ipc_message_validate(hdr), !.reads = 1]
              ELSE IF hdr.bufsz <= 0
              THEN cl' = [done EXCEPT !.rv = 0, !.reads = 1]
              ELSE IF got < hdr.bufsz
              THEN cl' = [done EXCEPT !.rv = CAPTURE_ERRNO(e), !.reads = 2,
                             !.allocs = stub_allocs(m, hdr)]
              ELSE cl' = [done EXCEPT !.rv = 0, !.reads = 2,
                             !.allocs = stub_allocs(m, hdr),
                             !.outs = [k \in 1..Len(m.returns) |->
                                          copy_out_result(m.returns[k], hdr, avail,
                                                          iov_offset(m, hdr, k), k, m0)]]
    /\ UNCHANGED <<sv, req, resp>>
    /\ UNCHANGED <<nameVars, envVars, dirs, regVars, setupVars, genVars>>

\* The call is over and the connection gone; the next call starts afresh.
CallOver ==
    /\ \/ cl.pc = "returned"
       \/ cl.pc = "idle" /\ sv.by # "none"
    /\ cl' = ClientIdle /\ sv' = ServerIdle /\ req' = NoReq /\ resp' = NoResp
    /\ UNCHANGED <<nameVars, envVars, dirs, regVars, setupVars, genVars>>

-----------------------------------------------------------------------------
(* SpecGen: one run of ipcc over schema files.  A string is the sequence   *)
(* of its characters, so that the generator's regular expressions and      *)
(* substitutions are computed on what they see.                            *)

Lower ==
    {"a", "b", "c", "d", "e", "f", "g", "h", "i", "j", "k", "l", "m", "n",
     "o", "p", "q", "r", "s", "t", "u", "v", "w", "x", "y", "z"}
Upper ==
    {"A", "B", "C", "D", "E", "F", "G", "H", "I", "J", "K", "L", "M", "N",
     "O", "P", "Q", "R", "S", "T", "U", "V", "W", "X", "Y", "Z"}
DigitChars == {"0", "1", "2", "3", "4", "5", "6", "7", "8", "9"}

\* [A-Za-z0-9_]
WordChars == Lower \cup Upper \cup DigitChars \cup {"_"}

\* pat is in s from position i on
MatchAt(s, pat, i) ==
    /\ i + Len(pat) - 1 <= Len(s)
    /\ \A j \in 1..Len(pat) : s[i + j - 1] = pat[j]

\* a regular expression that is not anchored matches anywhere in s
Contains(s, pat) == \E i \in 1..Len(s) : MatchAt(s, pat, i)

\* /\A[u]int\d+_t\z/
match_uintN_t(type) ==
    /\ Len(type) >= 7
    /\ MatchAt(type, <<"u", "i", "n", "t">>, 1)
    /\ \A j \in 5..(Len(type) - 2) : type[j] \in DigitChars
    /\ MatchAt(type, <<"_", "t">>, Len(type) - 1)

\* /(unsigned )?(long |int )?(int|long|char)/: the groups in front may
\* match nothing and there is no anchor, so the type has to hold "int",
\* "long" or "char" somewhere.
match_scalar(type) ==
    \/ Contains(type, <<"i", "n", "t">>)
    \/ Contains(type, <<"l", "o", "n", "g">>)
    \/ Contains(type, <<"c", "h", "a", "r">>)

\* /\Astruct [A-Za-z0-9_]+\z/
match_struct(type) ==
    /\ Len(type) >= 8
    /\ MatchAt(type, <<"s", "t", "r", "u", "c", "t", " ">>, 1)
    \* the name after "struct "
    /\ \A j \in 8..Len(type) : type[j] \in WordChars

\* Argument#copy_in, the case of the type: "text" (strlen + 1), "sizeof",
\* or "raise" for 'Unknown datatype'.
copy_in_case(type) ==
    IF type = <<"c", "h", "a", "r", " ", "*">> THEN "text"
    ELSE IF \/ match_uintN_t(type)
            \/ match_scalar(type)
            \/ type \in {<<"f", "l", "o", "a", "t">>, <<"d", "o", "u", "b", "l", "e">>,
                         <<"l", "o", "n", "g", " ", "d", "o", "u", "b", "l", "e">>}
            \/ match_struct(type)
    THEN "sizeof"
    ELSE "raise"

\* Declared types, each with what it is: text ('char *'), the text a
\* method hands back ('char **'), a scalar, a struct by value, a pointer to
\* something else, or a name the generator knows nothing about.
TypeCatalogue ==
    {[type |-> <<"c", "h", "a", "r", " ", "*">>, kind |-> "text"],
     [type |-> <<"i", "n", "t">>, kind |-> "scalar"],
     [type |-> <<"u", "n", "s", "i", "g", "n", "e", "d", " ", "l", "o", "n", "g">>, kind |-> "scalar"],
     [type |-> <<"u", "i", "n", "t", "3", "2", "_", "t">>, kind |-> "scalar"],
     [type |-> <<"d", "o", "u", "b", "l", "e">>, kind |-> "scalar"],
     [type |-> <<"s", "t", "r", "u", "c", "t", " ", "f", "o", "o">>, kind |-> "struct"],
     [type |-> <<"i", "n", "t", " ", "*">>, kind |-> "pointer"],
     [type |-> <<"s", "t", "r", "u", "c", "t", " ", "f", "o", "o", " ", "*">>, kind |-> "pointer"],
     [type |-> <<"s", "t", "r", "u", "c", "t", " ", "p", "o", "i", "n", "t", " ", "*">>, kind |-> "pointer"],
     [type |-> <<"v", "o", "i", "d", " ", "*">>, kind |-> "pointer"],
     [type |-> <<"c", "h", "a", "r", " ", "*", "*">>, kind |-> "textout"],
     [type |-> <<"f", "o", "o", "_", "t">>, kind |-> "other"]}

\* The arguments of one direction of a method: none or one.
ArgLists == {<<>>} \cup {<<e>> : e \in TypeCatalogue}

\* Service#identifier, Method#identifier: gsub(/[^A-Za-z0-9_]/, '_')
identifier(name) == [i \in 1..Len(name) |-> IF name[i] \in WordChars THEN name[i] ELSE "_"]

\* Method#stub_name: 'ipc_' + prefix + '__' + service.identifier + '__' + identifier
stub_name(prefix, svc, meth) ==
    <<"i", "p", "c", "_">> \o prefix \o <<"_", "_">> \o identifier(svc) \o <<"_", "_">> \o identifier(meth)

StubPrefix == <<"s", "t", "u", "b">>
SkeletonPrefix == <<"s", "k", "e", "l", "e", "t", "o", "n">>

\* The names of services and methods in the schema files.
SymChars == {"a", "-", "_"}
MaxSymLen == 2
SymNames == UNION {[1..n -> SymChars] : n \in 1..MaxSymLen}

NameA == <<"a">>
NameB == <<"b">>

\* A schema file: a service with one method.
SchemaFile(svc, meth, hasId, accepts, returns) ==
    [service |-> svc, method |-> meth, hasId |-> hasId, accepts |-> accepts,
     returns |-> returns]

\* Runs that differ in the types and in whether the method has an id.
TypeInputs ==
    {<<SchemaFile(NameA, NameB, hasId, accepts, returns)>> :
        hasId \in BOOLEAN, accepts \in ArgLists, returns \in ArgLists}

\* Runs over two schema files that differ in the names.
NameInputs ==
    {<<SchemaFile(s1, m1, TRUE, <<>>, <<>>), SchemaFile(s2, m2, TRUE, <<>>, <<>>)>> :
        s1 \in SymNames, m1 \in SymNames, s2 \in SymNames, m2 \in SymNames}

NoOutput == [raised |-> FALSE, header |-> FALSE, skeleton |-> FALSE, stub |-> FALSE,
             stubSym |-> <<>>, skelSym |-> <<>>]

\* Method#args_copy_in raises when the copy_in of an accepted argument does.
args_copy_in_raises(f) ==
    \E k \in 1..Len(f.accepts) : copy_in_case(f.accepts[k].type) = "raise"

\* CodeGenerator.new and CodeGenerator#generate for one schema file:
\* Method#initialize raises without an id; then the header and the
\* skeleton source are written, and the stub source last, whose
\* args_copy_in may raise.
generate(f) ==
    IF ~f.hasId THEN [NoOutput EXCEPT !.raised = TRUE]
    ELSE [raised |-> args_copy_in_raises(f),
          header |-> TRUE,
          skeleton |-> TRUE,
          stub |-> ~args_copy_in_raises(f),
          stubSym |-> stub_name(StubPrefix, f.service, f.method),
          skelSym |-> stub_name(SkeletonPrefix, f.service, f.method)]

RECURSIVE ipcc(_, _)
\* "ARGV.each": the files in turn, until one raises.
ipcc(files, i) ==
    IF i > Len(files) THEN <<>>
    ELSE IF generate(files[i]).raised THEN <<generate(files[i])>>
    ELSE <<generate(files[i])>> \o ipcc(files, i + 1)

GenIdle == gin = <<>> /\ gout = [status |-> "idle", out |-> <<>>]

-----------------------------------------------------------------------------
(* Spec: the calls of the registry, each one whole.                        *)

NoCall == [op |-> "none", domain |-> "", name |-> <<>>, version |-> 0, skind |-> "",
           rv |-> 0, calls |-> {}, nodeBefore |-> FALSE, pathBefore |-> NoPath,
           changed |-> FALSE]

\* The path of the triple's socket node under the present environment.
TriplePath(domain, name, version) ==
    <<statedir_of(domain, home, root).sd.tree, name, version>>

NodeExists(n, path) == path \in SockPaths /\ n[path] # NoOwner

\* The call's effect on the world, and the record of the call: what was
\* asked, whether the node of its path was there, what came back.
Apply(op, domain, name, version, skind, path, o) ==
    /\ dirs' = o.dirs
    /\ nodes' = o.nodes
    /\ fds' = o.fds
    /\ last' = [op |-> op, domain |-> domain, name |-> name, version |-> version,
                skind |-> skind, rv |-> o.rv, calls |-> o.calls,
                nodeBefore |-> NodeExists(nodes, path),
                pathBefore |-> path,
                changed |-> (o.dirs # dirs \/ o.nodes # nodes \/ o.fds # fds)]
    /\ UNCHANGED <<nameVars, envVars, setupVars, rpcVars, genVars>>

Bind ==
    /\ HasFreeFd(fds)
    /\ \E domain \in Domains, name \in RegNames, version \in Versions, listenOk \in BOOLEAN :
          Apply("bind", domain, name, version, "", TriplePath(domain, name, version),
                ipc_bind(domain, name, version, listenOk, dirs, nodes, fds, home, root))

Connect ==
    /\ HasFreeFd(fds)
    /\ \E domain \in Domains, name \in RegNames, version \in Versions :
          Apply("connect", domain, name, version, "", TriplePath(domain, name, version),
                ipc_connect(domain, name, version, dirs, nodes, fds, home, root))

Accept ==
    /\ HasFreeFd(fds)
    /\ \E s \in FdSet, lenOk \in BOOLEAN :
          Apply("accept", "", <<>>, 0, fds[s].kind, fds[s].path, ipc_accept(s, lenOk, dirs, nodes, fds))

Close ==
    /\ \E s \in FdSet :
       \E unspec \in (IF fds[s].path = NoPath THEN Unspecified ELSE {NoPath}) :
          Apply("close", "", <<>>, 0, fds[s].kind, fds[s].path,
                ipc_close(s, unspec, dirs, nodes, fds))

SystemTree == {<<"system", SubDirs[i]>> : i \in 1..Len(SubDirs)}

NameIdle == service = <<>> /\ vpc = "idle" /\ vrv = 0
SetupIdle ==
    /\ spc = [p \in SetupProcs |-> "idle"]
    /\ sdir = [p \in SetupProcs |-> NoDir]
    /\ sidx = [p \in SetupProcs |-> 1]
    /\ srv = [p \in SetupProcs |-> 0]
RegIdle ==
    /\ nodes = [path \in SockPaths |-> NoOwner]
    /\ fds = [fd \in FdSet |-> FreeFd]
    /\ last = NoCall

\* A root process finds no state directory yet; for the others the
\* system-wide one has been set up.
Init ==
    /\ home \in Homes
    /\ root \in BOOLEAN
    /\ dirs = IF root THEN {} ELSE SystemTree
    /\ RegIdle
    /\ NameIdle
    /\ SetupIdle
    /\ RpcIdle
    /\ GenIdle

Next == Bind \/ Connect \/ Accept \/ Close

Spec == Init /\ [][Next]_vars

SetupInit ==
    /\ home \in Homes
    /\ root \in BOOLEAN
    /\ dirs = {}
    /\ RegIdle
    /\ NameIdle
    /\ SetupIdle
    /\ RpcIdle
    /\ GenIdle

SetupNext ==
    \E p \in SetupProcs : SetupCall(p) \/ SetupAccess(p) \/ SetupMkdir(p) \/ SetupReturn(p)

SpecSetup == SetupInit /\ [][SetupNext]_vars

NameSpecInit ==
    /\ NameInit
    /\ home = [set |-> TRUE, len |-> HomeShort]
    /\ root = FALSE
    /\ dirs = {}
    /\ RegIdle
    /\ SetupIdle
    /\ RpcIdle
    /\ GenIdle

NameNext ==
    \/ ValidateCall /\ UNCHANGED <<envVars, dirs, regVars, setupVars, rpcVars, genVars>>
    \/ ValidateNext /\ UNCHANGED <<envVars, dirs, regVars, setupVars, rpcVars, genVars>>

SpecName == NameSpecInit /\ [][NameNext]_vars

RpcInit ==
    /\ RpcIdle
    /\ GenIdle
    /\ home = [set |-> TRUE, len |-> HomeShort]
    /\ root = FALSE
    /\ dirs = {}
    /\ RegIdle
    /\ NameIdle
    /\ SetupIdle

RpcNext ==
    StubCall \/ ForeignRequest \/ ServerDispatch \/ ForeignResponse \/ StubReceive \/ CallOver

SpecRpc == RpcInit /\ [][RpcNext]_vars

GenInit ==
    /\ gin \in TypeInputs \cup NameInputs
    /\ gout = [status |-> "idle", out |-> <<>>]
    /\ home = [set |-> TRUE, len |-> HomeShort]
    /\ root = FALSE
    /\ dirs = {}
    /\ RegIdle
    /\ NameIdle
    /\ SetupIdle
    /\ RpcIdle

\* One run of ipcc over the files of gin.
Generate ==
    /\ gout.status = "idle"
    /\ LET out == ipcc(gin, 1) IN
       gout' = [status |-> IF out[Len(out)].raised THEN "raised" ELSE "done", out |-> out]
    /\ UNCHANGED gin
    /\ UNCHANGED <<nameVars, envVars, dirs, regVars, setupVars, rpcVars>>

GenNext == Generate

SpecGen == GenInit /\ [][GenNext]_vars

-----------------------------------------------------------------------------
(* Claims about the registry.                                              *)

\* The syscalls that change the filesystem or the descriptor table.
SideEffects == {"mkdir", "socket", "bind", "listen", "connect"}

\* C2: when processes run the directory setup of ipc_bind / ipc_connect at
\* the same time and the directories are not there yet, every process's
\* setup returns success under every interleaving: a directory that
\* another process made in the meantime counts as success.
ConcurrentSetupNeverFails ==
    \A p \in SetupProcs : (spc[p] = "done" /\ sdir[p] # NoDir) => srv[p] = 0

\* C3: while the node of a triple is there (a live process bound it), an
\* ipc_bind on the triple returns the captured 'address in use'; and when
\* ipc_close on the bound descriptor has returned 0, the next ipc_bind on
\* the triple returns a descriptor, bound to the node again.
BindInUse ==
    (last.op = "bind" /\ last.nodeBefore) =>
        (last.rv = CAPTURE_ERRNO(EADDRINUSE) /\ InErrnoBand(last.rv))

BindAfterClose ==
    (/\ last.op = "close" /\ last.skind = "listener" /\ last.rv = 0
     /\ last'.op = "bind" /\ last'.pathBefore = last.pathBefore)
        => (/\ last'.rv >= 0
            /\ nodes'[last.pathBefore] = <<last'.rv>>
            /\ fds'[last'.rv].path = last.pathBefore)

OverlongPathCall ==
    /\ last.op \in {"bind", "connect"}
    /\ validate_service_name(last.name) = 0
    /\ statedir_of(last.domain, home, root).rv = 0
    /\ SockPathTooLong(statedir_of(last.domain, home, root).sd, last.name, last.version)

TooLongNameNoWork ==
    (last.op \in {"bind", "connect"} /\ Len(last.name) > IPC_SERVICE_NAME_MAX) =>
        /\ last.rv = 0 - IPC_ERROR_NAME_TOO_LONG
        /\ last.calls = {}
        /\ ~last.changed

\* A too-long name is turned away where a valid one would have had work to
\* do: the state directory is not there yet.
TooLongNameWitness ==
    /\ last.op \in {"bind", "connect"}
    /\ Len(last.name) > IPC_SERVICE_NAME_MAX
    /\ last.rv = 0 - IPC_ERROR_NAME_TOO_LONG
    /\ statedir_of(last.domain, home, root).setup
    /\ <<statedir_of(last.domain, home, root).sd.tree, "">> \notin dirs

\* C11: ipc_bind returns a non-negative descriptor only when the socket
\* has been created, bound to the path and is listening; when a step
\* fails, listen after a successful bind included, it returns a negative
\* code.
BindReturnSign ==
    (last.op = "bind" /\ last.rv >= 0) =>
        /\ fds[last.rv].kind = "listener"
        /\ fds[last.rv].path = last.pathBefore
        /\ nodes[last.pathBefore] = <<last.rv>>
        /\ fds[last.rv].listening

\* C13: ipc_close on a descriptor that ipc_connect returned (no path
\* bound) returns 0 and removes no node of the filesystem: it does not
\* call unlink, and the service's node is still there.
ClientCloseNoOp ==
    (last.op = "close" /\ last.skind = "client") =>
        /\ last.rv = 0
        /\ "unlink" \notin last.calls
        /\ ~last.changed

\* C14: ipc_close on a bound descriptor whose node is no longer in the
\* filesystem returns 0; so does a second ipc_close on the same bound
\* descriptor.
CloseBestEffort ==
    (last.op = "close" /\ last.skind = "listener" /\ ~last.nodeBefore) => last.rv = 0

\* C20: ipc_close on a descriptor that ipc_accept returned leaves the
\* node of the listening service in place: it unlinks nothing, and the
\* node that was there before the call is there after it.
AcceptedCloseKeepsNode ==
    (last.op = "close" /\ last.skind = "accepted" /\ last.nodeBefore) =>
        /\ "unlink" \notin last.calls
        /\ NodeExists(nodes, last.pathBefore)

\* The step is an ipc_close that returned 0.
ClosedWithSuccess == last'.op = "close" /\ last'.rv = 0

\* C21: when ipc_close(fd) has returned 0 the session is gone: a
\* descriptor that was open before the call is no longer open after it,
\* and for a bound session the socket no longer listens and its node is
\* unlinked.
CloseDestroysSession ==
    [][ClosedWithSuccess =>
          \E s \in FdSet :
              /\ fds[s].kind = last'.skind
              /\ fds[s].path = last'.pathBefore
              /\ fds'[s] = FreeFd
              /\ last'.skind = "listener" => ~NodeExists(nodes', last'.pathBefore)]_vars

-----------------------------------------------------------------------------
(* Claims about the generated stubs, dispatcher and handlers.              *)

\* C16: when the implementation function that a handler has called
\* reports failure (a negative return), the handler writes no response,
\* neither header nor segments, and closes the connection.
HandlerFailureSkipsResponse ==
    (sv.by = "generated" /\ sv.impl # <<>> /\ sv.implRv < 0) =>
        /\ sv.writes = 0
        /\ ~resp.some
        /\ sv.closes = 1

\* C17: on every path through the dispatcher, a handler run or a request
\* turned away as method-not-found, the connection it was given has been
\* closed by the time it returns.
DispatcherAlwaysCloses == sv.by = "generated" => sv.closes = 1

\* The stub has got past its writev and returned, and the response header
\* was not read in full or did not validate.
NoValidHeader ==
    /\ cl.pc = "returned" /\ cl.reads >= 1
    /\ ~cl.hdrRead \/ ipc_message_validate(cl.hdr) < 0

\* C18: when the read of the response header fails or is short, or the
\* header does not validate, the stub returns a negative code, allocates
\* no return buffer and reads no payload.
HeaderBeforePayload ==
    NoValidHeader =>
        /\ cl.rv < 0
        /\ cl.allocs = <<>>
        /\ cl.reads = 1

\* The byte length of the segment that carries a value.
SegmentLen(t, v) ==
    IF t.text THEN (IF v.null THEN 0 ELSE Len(v.bytes) + 1) ELSE Len(v.bytes)

\* A header agrees with the values it is sent with.
Consistent(hdr, types, vals) ==
    /\ hdr.argc = Len(types)
    /\ \A c \in ArgIdx :
          hdr.argsz[c] = IF c < Len(types) THEN SegmentLen(types[c + 1], vals[c + 1]) ELSE 0
    /\ hdr.bufsz = SumSizes(hdr.argsz, hdr.argc)

\* C19: in every request header built by a stub and every response header
\* built by a handler, argc is the number of declared arguments, sizes[k]
\* the byte length of the k-th segment sent, every later entry 0, and the
\* total payload size the sum of the sizes (and the length of what is
\* sent after the header).
HeaderConsistency ==
    /\ (req.some /\ req.from = "stub") =>
          /\ Consistent(req.hdr, Schema[cl.m].accepts, cl.args)
          /\ req.hdr.bufsz = Len(req.body)
    /\ (resp.some /\ resp.from = "handler") =>
          /\ \A i \in sv.handlers : Consistent(resp.hdr, Schema[i].returns, sv.rets)
          /\ sv.wrote = sv.total => resp.hdr.bufsz = Len(resp.payload)

\* A request of two arguments of different sizes, answered in full with
\* two values of different sizes.
HeaderConsistencyWitness ==
    /\ req.some /\ req.from = "stub" /\ req.hdr.argc = 2
    /\ req.hdr.argsz[0] # req.hdr.argsz[1]
    /\ resp.some /\ resp.from = "handler" /\ resp.hdr.argc = 2
    /\ resp.hdr.argsz[0] # resp.hdr.argsz[1]
    /\ sv.wrote = sv.total

\* The content of a value: a null text counts as the empty text.
Content(v) == IF v.null THEN <<>> ELSE v.bytes

\* The handler of the stub's own request has called the implementation.
HandlerServedStub == sv.by = "generated" /\ req.from = "stub" /\ sv.impl # <<>>

\* C1: after the stub has marshalled a call and the handler has taken the
\* arguments out of the body, the k-th value handed to the implementation
\* function equals the k-th value the caller passed, for every k.
AcceptedArgsRoundTrip ==
    HandlerServedStub =>
        /\ Len(sv.args) = Len(cl.args)
        /\ \A k \in 1..Len(cl.args) : Content(sv.args[k]) = Content(cl.args[k])

\* The id of the request is one of the service's.
Registered == req.hdr.method \in MethodIds

\* C4: a request with a registered method id invokes exactly one handler,
\* the one generated for that id, and its implementation function; a
\* request with any other id returns -IPC_ERROR_METHOD_NOT_FOUND and
\* invokes no handler and no implementation function.
DispatchRouting ==
    sv.by = "generated" =>
        IF Registered
        THEN /\ Cardinality(sv.handlers) = 1
             /\ \A i \in sv.handlers :
                   Schema[i].id = req.hdr.method /\ sv.impl = <<Schema[i].name>>
        ELSE /\ sv.rv = 0 - IPC_ERROR_METHOD_NOT_FOUND
             /\ sv.handlers = {}
             /\ sv.impl = <<>>
             /\ sv.writes = 0

DispatchRoutingWitness ==
    /\ sv.by = "generated"
    /\ req.hdr.method = Schema[4].id
    /\ sv.handlers = {4}
    /\ sv.impl = <<"put">>

\* The stub's one writev has reported fewer bytes than header plus segments.
RequestShortWrite == cl.writes = 1 /\ cl.wrote >= 0 /\ cl.wrote < cl.total

ValidatedResponse ==
    /\ cl.pc = "returned" /\ cl.hdrRead
    /\ ipc_message_validate(cl.hdr) = 0

OneTextMethods == {i \in Methods : Schema[i].returns = <<TText>>}

\* The handler of such a method has marshalled a non-empty result.
TextReturned ==
    /\ HandlerServedStub
    /\ cl.m \in OneTextMethods
    /\ sv.handlers = {cl.m}
    /\ Len(sv.rets[1].bytes) >= 1

\* C7: for a method returning one text and a result of length n >= 1, the
\* response header carries argc = 1, sizes [n + 1] and bufsz n + 1, and is
\* followed by the n bytes and a NUL; the stub that reads it allocates
\* exactly n + 1 bytes and hands the caller the NUL-terminated string.
TextReturnRoundTrip ==
    TextReturned =>
        LET n == Len(sv.rets[1].bytes) IN
        /\ resp.some =>
              /\ resp.hdr.argc = 1
              /\ resp.hdr.argsz = [c \in ArgIdx |-> IF c = 0 THEN n + 1 ELSE 0]
              /\ resp.hdr.bufsz = n + 1
        /\ (resp.some /\ sv.wrote = sv.total) => resp.payload = sv.rets[1].bytes \o <<0>>
        /\ (cl.pc = "returned" /\ cl.reads = 2 /\ cl.rv = 0) =>
              /\ cl.allocs = <<n + 1>>
              /\ cl.outs = <<[st |-> "valid", bytes |-> sv.rets[1].bytes]>>

TextReturnRoundTripWitness ==
    /\ TextReturned
    /\ sv.rets[1].bytes = <<2, 1>>
    /\ resp.some /\ sv.wrote = sv.total
    /\ cl.pc = "returned" /\ cl.reads = 2 /\ cl.rv = 0
    /\ cl.outs = <<[st |-> "valid", bytes |-> <<2, 1>>]>>

\* A handler has run and returned.
HandlerReturned == sv.by = "generated" /\ sv.impl # <<>>

\* A stub that had made its connection has returned.
StubReturned == cl.pc = "returned" /\ cl.conn

\* C22: every run of a handler issues at most one response writev and
\* closes the connection exactly once before it returns, when the write
\* succeeds and when it fails; every run of a stub that made a connection
\* issues at most one request writev and closes the connection exactly
\* once before it returns, whatever step failed.
OneCallAlwaysClosed ==
    /\ HandlerReturned => (sv.writes <= 1 /\ sv.closes = 1)
    /\ StubReturned => (cl.writes <= 1 /\ cl.closes = 1)
    /\ cl.pc = "reading" => (cl.writes = 1 /\ cl.closes = 0)

\* The handler's writev has failed and the stub's read after it: both
\* have returned an error and closed once.
OneCallAlwaysClosedWitness ==
    /\ HandlerReturned /\ sv.wrote < 0 /\ sv.rv < 0 /\ sv.closes = 1
    /\ StubReturned /\ cl.reads = 1 /\ cl.rv < 0 /\ cl.closes = 1

-----------------------------------------------------------------------------
(* Claims about the generator.                                             *)

\* A declared type that can be carried: text, a scalar, a struct by value;
\* for a returned value also the text a method hands back ('char **').
Supported(e, returned) ==
    \/ e.kind \in {"text", "scalar", "struct"}
    \/ e.kind = "textout" /\ returned

\* The schema file has an argument, accepted or returned, of a type that
\* cannot be carried.
HasUnsupported(f) ==
    \/ \E k \in 1..Len(f.accepts) : ~Supported(f.accepts[k], FALSE)
    \/ \E k \in 1..Len(f.returns) : ~Supported(f.returns[k], TRUE)

\* C12: for a schema with an argument, accepted or returned, whose type is
\* not text, not a scalar and not a struct by value, generation fails with
\* an error, and no stub and no skeleton is written for the schema.
UnsupportedTypeAborts ==
    gout.status # "idle" =>
        \A i \in 1..Len(gin) :
            (gin[i].hasId /\ HasUnsupported(gin[i]) /\ i <= Len(gout.out)) =>
                /\ gout.out[i].raised
                /\ ~gout.out[i].stub
                /\ ~gout.out[i].skeleton

\* C15: two different (service name, method name) pairs never get the same
\* stub symbol, nor the same skeleton symbol.
SymbolsInjective ==
    gout.status = "done" =>
        \A i \in 1..Len(gin), j \in 1..Len(gin) :
            <<gin[i].service, gin[i].method>> # <<gin[j].service, gin[j].method>> =>
                /\ gout.out[i].stubSym # gout.out[j].stubSym
                /\ gout.out[i].skelSym # gout.out[j].skelSym

=============================================================================
